---- MODULE Spec2Model ----
(***************************************************************************)
(* Model of controllers/rootpolicystatus/root_policy_status_controller.go: *)
(* the root-policy status reconciler.  Workers run Reconcile concurrently; *)
(* each invocation takes the per-root lock, resolves the placement         *)
(* bindings of the root's namespace into a decision map (two passes),      *)
(* looks up one replicated policy per decision, and writes the root status.*)
(*                                                                         *)
(* Names that the code compares with < (binding names, cluster names) are  *)
(* natural numbers ordered as the strings are; all other names are strings.*)
(* "" is the empty string / the zero value of a Go string field.           *)
(***************************************************************************)
EXTENDS Naturals, Sequences, FiniteSets, TLC

\* ------------------------------------------------------------------ bounds
MaxBindings == 2        \* placement bindings in the namespace (pure-function runs)
NumWorkers == 2         \* Reconcile invocations, each on a worker of its own
MaxEnvChanges == 1      \* store changes by other actors and failed store calls (concurrent runs)
MaxFaults == 2          \* failed store calls (pure-function runs)

\* ------------------------------------------------------------- the universe
Workers == 1..NumWorkers
Roots == {"p1", "p2"}                   \* root policy names, one namespace
PolicyGroup == "policy.open-cluster-management.io"
OtherGroup == "apps.open-cluster-management.io"
PolicyKind == "Policy"
PolicySetKind == "PolicySet"
Restricted == "restricted"
Enforce == "Enforce"
ReplicaNamespaces == {"ns1", "ns2", "ns3"}

\* Three targets; tA and tB share the cluster name and differ in namespace.
tA == [ClusterName |-> 1, ClusterNamespace |-> "ns1"]
tB == [ClusterName |-> 1, ClusterNamespace |-> "ns2"]
tC == [ClusterName |-> 2, ClusterNamespace |-> "ns3"]
Targets == {tA, tB, tC}

Subject(g, k, n) == [APIGroup |-> g, Kind |-> k, Name |-> n]
SubjDirect == << Subject(PolicyGroup, PolicyKind, "p1") >>
SubjDirectDup ==
    << Subject(PolicyGroup, PolicyKind, "p1"), Subject(PolicyGroup, PolicySetKind, "s1"),
       Subject(PolicyGroup, PolicyKind, "p1"), Subject(PolicyGroup, PolicySetKind, "s1") >>
SubjSets ==
    << Subject(PolicyGroup, PolicySetKind, "s1"), Subject(PolicyGroup, PolicySetKind, "s2") >>
SubjOther ==
    << Subject(OtherGroup, PolicyKind, "p1"), Subject(PolicyGroup, PolicyKind, "p2"),
       Subject(PolicyGroup, PolicySetKind, "s3") >>

\* The shapes a binding is drawn from: subjects, kind of the placement
\* reference, its name ("" for the name that goes with the binding's name),
\* remediation-action override.
Templates ==
    { [Subjects |-> SubjDirectDup, Kind |-> "PlacementRule", Ref |-> "",
       RemediationAction |-> ""],
      [Subjects |-> SubjDirect,    Kind |-> "Placement",     Ref |-> "",
       RemediationAction |-> "Enforce"],
      [Subjects |-> SubjSets,      Kind |-> "PlacementRule", Ref |-> "g3",
       RemediationAction |-> "inform"],
      [Subjects |-> SubjOther,     Kind |-> "Placement",     Ref |-> "",
       RemediationAction |-> "enforce"],
      [Subjects |-> SubjDirect,    Kind |-> "ConfigMap",     Ref |-> "",
       RemediationAction |-> ""] }

RefNameOf(n) == CASE n = 1 -> "g1" [] n = 2 -> "g2" [] OTHER -> "g3"

Binding(n, sf, t) ==
    [Name |-> n, SubFilter |-> sf, Subjects |-> t.Subjects,
     PlacementRef |-> [Kind |-> t.Kind, Name |-> IF t.Ref = "" THEN RefNameOf(n) ELSE t.Ref],
     RemediationAction |-> t.RemediationAction]

BindingsNamed(n) == { Binding(n, sf, t) : sf \in {"", Restricted}, t \in Templates }

\* Every content of the binding store: at most MaxBindings bindings, keyed by
\* their (unique) names.
StoresOver(N) ==
    { f \in [N -> UNION { BindingsNamed(m) : m \in N }] : \A n \in N : f[n].Name = n }
BindingStores == UNION { StoresOver(N) : N \in SUBSET (1..MaxBindings) }

\* ------------------------------------------------------------------- state
VARIABLES
    \* the object store
    policies,           \* root name -> [Exists, Disabled, Status]
    bindings,           \* binding name -> PlacementBinding (the namespace's bindings)
    policySets,         \* policy-set name -> set of member policy names
    groupings,          \* existing PlacementRule / Placement objects: [Kind, Name]
    clusterDecisions,   \* placement-reference name -> sequence of targets
    replicas,           \* <<cluster namespace, root name>> -> compliance state or NotFound
    \* the reconciler
    RootPolicyLocks,    \* root name -> mutex registered for it (sync.Map)
    locked,             \* the mutexes currently held
    maxConcurrentReconciles,    \* the workers the controller runs (SetupWithManager)
    requestKeys,        \* the roots the event source delivers requests for
    pc, request, lock, rootPolicy, pbList, idx, allClusterDecisions, decisions,
    placements,
    remaining, status, lookupErr, err,
    \* the environment's budget
    envLeft,
    \* history
    ops, faulty, dirty, lastHolder, lastRun, anyFailed, prevStatus, cleanWrites

storeVars == << policies, bindings, policySets, groupings, clusterDecisions, replicas >>
lockVars == << RootPolicyLocks, locked >>
config == << maxConcurrentReconciles, requestKeys >>
localVars == << pc, request, lock, rootPolicy, pbList, idx, allClusterDecisions,
               decisions, placements,
                remaining, status, lookupErr, err >>
histVars == << ops, faulty, dirty, lastHolder, lastRun, anyFailed, prevStatus, cleanWrites >>
vars == << storeVars, lockVars, config, localVars, envLeft,
           histVars >>

NotFound == "NotFound"
EmptyMap == << >>
EmptyStatus == [Status |-> << >>, ComplianceState |-> "", Placement |-> << >>]

\* ---------------------------------------------------------- pure functions
\* strings.ToLower / strings.EqualFold on the remediation actions in use.
ToLower(s) == IF s = "Enforce" THEN "enforce" ELSE s
EqualFold(a, b) == ToLower(a) = ToLower(b)

Range(s) == { s[i] : i \in DOMAIN s }

\* sort.Slice with the given less: for slices of at most 12 elements Go runs an
\* insertion sort, which keeps equal keys in their input order.
\* The less functions at lines 296, 339 and 420 compare one field.
ByBinding == "PlacementBinding"
ByCluster == "ClusterName"
Less(key, a, b) == a[key] < b[key]

RECURSIVE InsertBy(_, _, _)
InsertBy(key, x, s) ==
    IF s = << >> THEN << x >>
    ELSE IF Less(key, x, s[Len(s)])
         THEN InsertBy(key, x, SubSeq(s, 1, Len(s) - 1)) \o << s[Len(s)] >>
    ELSE Append(s, x)
RECURSIVE SortSlice(_, _)
SortSlice(key, s) ==
    IF s = << >> THEN << >>
    ELSE InsertBy(key, s[Len(s)], SortSlice(key, SubSeq(s, 1, Len(s) - 1)))

Nil == "nil"              \* the nil error
ErrGetRoot == "failed to get the root policy"
ErrDecisions == "could not get the placement decisions"
ErrUpdate == "failed to update the status"
ErrInvalidRef == "placement binding reference is not valid"
ErrGrouping == "failed to check for the placement reference"
ErrLookup == "failed to get the decisions"

\* common.HasValidPlacementRef: the reference names a supported grouping kind.
HasValidPlacementRef(pb) == pb.PlacementRef.Kind \in {"PlacementRule", "Placement"}

\* common.GetDecisions: the targets the binding's placement reference resolves to.
GetDecisions(pb, fail) ==
    IF fail THEN [decisions |-> << >>, err |-> ErrLookup]
    ELSE [decisions |-> clusterDecisions[pb.PlacementRef.Name], err |-> Nil]

\* propagator.CalculateRootCompliance: the aggregate of the per-cluster states.
CalculateRootCompliance(cpcs) ==
    IF \E i \in DOMAIN cpcs : cpcs[i].ComplianceState = "NonCompliant" THEN "NonCompliant"
    ELSE IF cpcs # << >> /\ \A i \in DOMAIN cpcs : cpcs[i].ComplianceState = "Compliant"
         THEN "Compliant"
    ELSE ""

\* isPolicyInPolicySet: a failed Get of the policy set counts as "not a member".
isPolicyInPolicySet(policyName, policySetName, failing) ==
    IF policySetName \in failing \/ policySetName \notin DOMAIN policySets THEN FALSE
    ELSE policyName \in policySets[policySetName]

NewPlacement(bindingName, policySet) ==
    [PlacementBinding |-> bindingName, PolicySet |-> policySet,
     PlacementRule |-> "", Placement |-> ""]

\* A subject loop that makes a record for every Policy subject naming the root.
SubjectStepRepeats(instance, pb, failing, st, subject) ==
    IF subject.APIGroup # PolicyGroup THEN st
    ELSE IF subject.Kind = PolicyKind THEN
        IF subject.Name = instance.Name
        THEN [st EXCEPT !.policySubjectFound = TRUE,
                        !.placements = Append(@, NewPlacement(pb.Name, ""))]
        ELSE st
    ELSE IF subject.Kind = PolicySetKind THEN
        IF subject.Name \notin st.policySetSubjects
        THEN [st EXCEPT !.policySetSubjects = @ \cup {subject.Name},
                        !.placements =
                            IF isPolicyInPolicySet(instance.Name, subject.Name, failing)
                            THEN Append(@, NewPlacement(pb.Name, subject.Name))
                            ELSE @]
        ELSE st
    ELSE st

\* One iteration of the subject loop of getPolicyPlacementDecisions.
SubjectStep(instance, pb, failing, st, subject) ==
    IF subject.APIGroup # PolicyGroup THEN st
    ELSE IF subject.Kind = PolicyKind THEN
        IF ~st.policySubjectFound /\ subject.Name = instance.Name
        THEN [st EXCEPT !.policySubjectFound = TRUE,
                        !.placements = Append(@, NewPlacement(pb.Name, ""))]
        ELSE st
    ELSE IF subject.Kind = PolicySetKind THEN
        IF subject.Name \notin st.policySetSubjects
        THEN [st EXCEPT !.policySetSubjects = @ \cup {subject.Name},
                        !.placements =
                            IF isPolicyInPolicySet(instance.Name, subject.Name, failing)
                            THEN Append(@, NewPlacement(pb.Name, subject.Name))
                            ELSE @]
        ELSE st
    ELSE st

RECURSIVE SubjectLoop(_, _, _, _, _)
SubjectLoop(instance, pb, failing, i, st) ==
    IF i > Len(pb.Subjects) THEN st
    ELSE SubjectLoop(instance, pb, failing, i + 1,
                     SubjectStep(instance, pb, failing, st, pb.Subjects[i]))

\* The policy sets whose membership the subject loop looks up for this binding.
SetLookups(pb) ==
    { pb.Subjects[i].Name : i \in { j \in DOMAIN pb.Subjects :
          pb.Subjects[j].APIGroup = PolicyGroup /\ pb.Subjects[j].Kind = PolicySetKind } }

\* What the store may answer during one resolver call: the policy-set Gets that
\* fail, whether the Get of the grouping object fails (other than not found),
\* whether the decision lookup fails.
NoFaults == [sets |-> {}, ref |-> FALSE, dec |-> FALSE]
ResolverFaults(pb) ==
    IF envLeft > 0 THEN [sets : SUBSET SetLookups(pb), ref : BOOLEAN, dec : BOOLEAN]
    ELSE {NoFaults}

\* The switch on pb.PlacementRef.Kind: the name of the grouping object goes
\* into the records, empty when the object is not found.
WithGrouping(pls, pb) ==
    LET found == [Kind |-> pb.PlacementRef.Kind, Name |-> pb.PlacementRef.Name] \in groupings
        name == IF found THEN pb.PlacementRef.Name ELSE ""
    IN [i \in DOMAIN pls |->
            IF pb.PlacementRef.Kind = "PlacementRule" THEN [pls[i] EXCEPT !.PlacementRule = name]
            ELSE IF pb.PlacementRef.Kind = "Placement" THEN [pls[i] EXCEPT !.Placement = name]
            ELSE pls[i]]

Resolved(ds, pls, e) == [decisions |-> ds, placements |-> pls, err |-> e]

\* A disabled root that reports no placement records either.
disabledNothing(pls) == Resolved(<< >>, << >>, Nil)

\* lines 238-241: a disabled root gets no decisions, the records are kept.
disabledResult(pls) == Resolved(<< >>, pls, Nil)

\* getPolicyPlacementDecisions after the validity check (lines 170-245).
resolveSubjects(instance, pb, f) ==
    LET st == SubjectLoop(instance, pb, f.sets, 1,
                          [policySubjectFound |-> FALSE, policySetSubjects |-> {},
                           placements |-> << >>])
    IN IF Len(st.placements) = 0 THEN Resolved(<< >>, << >>, Nil)
       ELSE IF f.ref THEN Resolved(<< >>, << >>, ErrGrouping)
       ELSE LET pls == WithGrouping(st.placements, pb)
            IN IF instance.Disabled THEN disabledResult(pls)
               ELSE LET got == GetDecisions(pb, f.dec)
                    IN Resolved(got.decisions, pls, got.err)

\* A resolver without the validity check of the placement reference.
resolveUnchecked(instance, pb, f) == resolveSubjects(instance, pb, f)

\* getPolicyPlacementDecisions: the validity check, then the resolution.
getPolicyPlacementDecisions(instance, pb, f) ==
    IF ~HasValidPlacementRef(pb) THEN Resolved(<< >>, << >>, ErrInvalidRef)
    ELSE resolveSubjects(instance, pb, f)

\* A pass-1 merge that compares the remediation action case-sensitively.
MergeCaseSensitive(d, decision, pb) ==
    IF decision \in DOMAIN d
    THEN IF pb.RemediationAction = ToLower(Enforce)
         THEN [d EXCEPT ![decision] = [RemediationAction |-> ToLower(Enforce)]]
         ELSE d
    ELSE (decision :> [RemediationAction |-> ToLower(pb.RemediationAction)]) @@ d

\* The body of the pass-1 loop over plcDecisions (lines 275-289).
MergePass1(d, decision, pb) ==
    IF decision \in DOMAIN d
    THEN IF EqualFold(pb.RemediationAction, Enforce)
         THEN [d EXCEPT ![decision] = [RemediationAction |-> ToLower(Enforce)]]
         ELSE d
    ELSE (decision :> [RemediationAction |-> ToLower(pb.RemediationAction)]) @@ d

\* A pass-2 merge that stores the override of the restricted binding.
MergeOverwrite(d, decision, pb) ==
    IF decision \in DOMAIN d
    THEN [d EXCEPT ![decision] = [RemediationAction |-> ToLower(pb.RemediationAction)]]
    ELSE d

\* A pass-2 merge that lets a restricted binding add targets.
MergeUnfiltered(d, decision, pb) == MergePass1(d, decision, pb)

\* The body of the pass-2 loop over plcDecisions (lines 321-331).
MergePass2(d, decision, pb) ==
    IF decision \in DOMAIN d
    THEN IF EqualFold(pb.RemediationAction, Enforce)
         THEN [d EXCEPT ![decision] = [RemediationAction |-> ToLower(Enforce)]]
         ELSE d
    ELSE d

RECURSIVE MergeAll(_, _, _, _, _)
MergeAll(pass, d, ds, i, pb) ==
    IF i > Len(ds) THEN d
    ELSE MergeAll(pass, IF pass = 1 THEN MergePass1(d, ds[i], pb) ELSE MergePass2(d, ds[i], pb),
                  ds, i + 1, pb)

\* A pass 2 that takes every restricted binding as matched.
alwaysFound(d, ds) == TRUE

\* foundInDecisions after the pass-2 loop.
FoundInDecisions(d, ds) == \E i \in DOMAIN ds : ds[i] \in DOMAIN d

\* The orders in which a List may return the bindings of the namespace.
Orderings(m) ==
    { [i \in DOMAIN q |-> m[q[i]]] :
        q \in { o \in [1..Cardinality(DOMAIN m) -> DOMAIN m] :
                  \A i, j \in DOMAIN o : i # j => o[i] # o[j] } }

\* Placement records left in the order they were collected.
unsorted(pls) == pls

\* The sort.Slice calls at lines 295, 338 and 419.
sortPlacements(pls) == SortSlice(ByBinding, pls)
sortStatus(st) == SortSlice(ByCluster, st)

\* ------------------------------------------------------------ the registry
\* One mutex object handed to every caller, whatever the key.
globalMutex(w, key) == [by |-> 0, for |-> ""]

NewMutex(w, key) == [by |-> w, for |-> key]      \* &sync.Mutex{} at line 91

\* A registry that stores the caller's new mutex even when the key has one.
StoreAlways(m, key, value) == (key :> value) @@ m

\* sync.Map.LoadOrStore: the registry after the call.
LoadOrStore(m, key, value) == IF key \in DOMAIN m THEN m ELSE (key :> value) @@ m

\* A mutex that never blocks.
NeverHeld(mu) == TRUE

\* sync.Mutex.Lock returns only when the mutex is free.
CanLock(mu) == mu \notin locked

\* ------------------------------------------------------------- Reconcile
\* A store call may fail while the budget of failures lasts.
FaultChoices == IF envLeft > 0 THEN BOOLEAN ELSE {FALSE}
Charge(fail) == envLeft' = IF fail THEN envLeft - 1 ELSE envLeft

NoPolicy == [Name |-> "", Disabled |-> FALSE, Status |-> EmptyStatus]
StoredPolicy(k) == [Name |-> k, Disabled |-> policies[k].Disabled, Status |-> policies[k].Status]

\* Reconcile is called with a request for root k on an idle worker; line 91.
DoLoadOrStore(w, k) ==
    /\ pc[w] = "idle"
    /\ w <= maxConcurrentReconciles
    /\ k \in requestKeys
    /\ request' = [request EXCEPT ![w] = k]
    /\ RootPolicyLocks' = LoadOrStore(RootPolicyLocks, k, NewMutex(w, k))
    /\ lock' = [lock EXCEPT ![w] = RootPolicyLocks'[k]]
    /\ pc' = [pc EXCEPT ![w] = "lock"]
    /\ UNCHANGED << storeVars, locked, config, rootPolicy, pbList,
                    idx, allClusterDecisions, decisions, placements, remaining, status, lookupErr, err,
                    envLeft, histVars >>

\* line 93
Lock(w) ==
    /\ pc[w] = "lock"
    /\ CanLock(lock[w])
    /\ locked' = locked \cup {lock[w]}
    /\ pc' = [pc EXCEPT ![w] = "getRoot"]
    /\ dirty' = [dirty EXCEPT ![request[w]] = FALSE]
    /\ lastHolder' = [lastHolder EXCEPT ![request[w]] = w]
    /\ UNCHANGED << storeVars, RootPolicyLocks, config, request, lock,
                    rootPolicy, pbList, idx, allClusterDecisions, decisions, placements, remaining, status,
                    lookupErr, err, envLeft, ops, faulty, lastRun, anyFailed, prevStatus, cleanWrites >>

\* A load that reports a deleted root as an error.
absenceIsError(fail, exists) ==
    IF fail \/ ~exists THEN [next |-> "unlock", err |-> ErrGetRoot]
    ELSE [next |-> "list", err |-> Nil]

\* lines 99-109: what follows the initial Get: its error is returned, a root
\* that is not found ends the request without error, a root that was read is
\* handed to rootStatusUpdate.
RootLoad(fail, exists) ==
    IF fail THEN [next |-> "unlock", err |-> ErrGetRoot]
    ELSE IF ~exists THEN [next |-> "unlock", err |-> Nil]
    ELSE [next |-> "list", err |-> Nil]

\* lines 96-109: the initial Get of the root policy.
GetRoot(w) ==
    /\ pc[w] = "getRoot"
    /\ ops' = [ops EXCEPT ![w] = @ \cup {"getRoot"}]
    /\ \E fail \in FaultChoices :
       LET out == RootLoad(fail, policies[request[w]].Exists) IN
       /\ Charge(fail)
       /\ err' = [err EXCEPT ![w] = out.err]
       /\ pc' = [pc EXCEPT ![w] = out.next]
       /\ rootPolicy' = [rootPolicy EXCEPT ![w] =
             IF out.next = "list" THEN StoredPolicy(request[w]) ELSE @]
    /\ UNCHANGED << storeVars, lockVars, config, request, lock, pbList, idx,
                    allClusterDecisions, decisions, placements, remaining, status, lookupErr,
                    faulty, dirty, lastHolder, lastRun, anyFailed, prevStatus, cleanWrites >>

\* An error check that lets every error through.
NeverFails(e) == FALSE

\* The error checks at lines 266, 312, 359, 366 and 123: an error of the List
\* or of a resolver call ends the cycle.
BuildFails(e) == e # Nil

\* rootStatusUpdate lines 122-127 on an error of getDecisions: (nil, empty, err)
\* comes back and the error is returned.
Abort(w) ==
    /\ err' = [err EXCEPT ![w] = ErrDecisions]
    /\ pc' = [pc EXCEPT ![w] = "unlock"]
    /\ allClusterDecisions' = [allClusterDecisions EXCEPT ![w] = EmptyMap]
    /\ decisions' = [decisions EXCEPT ![w] = EmptyMap]
    /\ placements' = [placements EXCEPT ![w] = << >>]

\* getDecisions lines 356-363: List of the bindings of the root's namespace.
ListBindings(w) ==
    /\ pc[w] = "list"
    /\ \E fail \in FaultChoices :
       /\ Charge(fail)
       /\ ops' = [ops EXCEPT ![w] = @ \cup (IF fail THEN {"list", "listFailed"} ELSE {"list"})]
       /\ IF BuildFails(IF fail THEN ErrLookup ELSE Nil) THEN
            /\ Abort(w)
            /\ UNCHANGED << pbList, idx >>
         ELSE
            /\ \E l \in Orderings(bindings) : pbList' = [pbList EXCEPT ![w] = l]
            /\ idx' = [idx EXCEPT ![w] = 1]
            /\ allClusterDecisions' = [allClusterDecisions EXCEPT ![w] = EmptyMap]
            /\ decisions' = [decisions EXCEPT ![w] = EmptyMap]
            /\ placements' = [placements EXCEPT ![w] = << >>]
            /\ pc' = [pc EXCEPT ![w] = "pass1"]
            /\ UNCHANGED err
    /\ UNCHANGED << storeVars, lockVars, config, request, lock, rootPolicy,
                    remaining, status, lookupErr,
                    faulty, dirty, lastHolder, lastRun, anyFailed, prevStatus, cleanWrites >>

\* getAllClusterDecisions lines 260-292: one iteration of the pass-1 loop.
Pass1(w) ==
    /\ pc[w] = "pass1"
    /\ idx[w] <= Len(pbList[w])
    /\ LET pb == pbList[w][idx[w]] IN
         IF pb.SubFilter = Restricted THEN
            /\ idx' = [idx EXCEPT ![w] = @ + 1]
            /\ UNCHANGED << pc, allClusterDecisions, decisions, placements, err, ops,
                            faulty, envLeft >>
         ELSE
            \E f \in ResolverFaults(pb) :
              LET r == getPolicyPlacementDecisions(rootPolicy[w], pb, f) IN
                /\ ops' = [ops EXCEPT ![w] = @ \cup (IF r.err # Nil THEN {"resolve", "resolveFailed"}
                                                     ELSE {"resolve"})]
                /\ faulty' = [faulty EXCEPT ![w] = @ \/ f.sets # {}]
                /\ Charge(f # NoFaults)
                /\ IF BuildFails(r.err) THEN
                      /\ Abort(w)
                      /\ UNCHANGED idx
                   ELSE
                      /\ allClusterDecisions' = [allClusterDecisions EXCEPT
                                         ![w] = MergeAll(1, @, r.decisions, 1, pb)]
                      /\ placements' = [placements EXCEPT ![w] = @ \o r.placements]
                      /\ idx' = [idx EXCEPT ![w] = @ + 1]
                      /\ UNCHANGED << pc, err, decisions >>
    /\ UNCHANGED << storeVars, lockVars, config, request, lock, rootPolicy,
                    pbList, remaining, status, lookupErr,
                    dirty, lastHolder, lastRun, anyFailed, prevStatus, cleanWrites >>

\* getDecisions lines 365-378: the override map collapses to a membership set.
DecisionSetOf(d) == [t \in DOMAIN d |-> TRUE]

\* The builder returns; calculatePerClusterStatus starts (lines 129, 384-389).
StartAggregation(w, d, pls) ==
    /\ decisions' = [decisions EXCEPT ![w] = DecisionSetOf(d)]
    /\ placements' = [placements EXCEPT ![w] = pls]
    /\ remaining' = [remaining EXCEPT ![w] = DOMAIN d]
    /\ status' = [status EXCEPT ![w] = << >>]
    /\ lookupErr' = [lookupErr EXCEPT ![w] = Nil]
    /\ pc' = [pc EXCEPT ![w] = "aggregate"]

\* lines 294-301: after pass 1, the early exit or the start of pass 2.
Pass1Done(w) ==
    /\ pc[w] = "pass1"
    /\ idx[w] > Len(pbList[w])
    /\ IF DOMAIN allClusterDecisions[w] = {} THEN
          /\ StartAggregation(w, EmptyMap, sortPlacements(placements[w]))
          /\ UNCHANGED idx
       ELSE
          /\ pc' = [pc EXCEPT ![w] = "pass2"]
          /\ idx' = [idx EXCEPT ![w] = 1]
          /\ UNCHANGED << decisions, placements, remaining, status, lookupErr >>
    /\ UNCHANGED << storeVars, lockVars, config, request, lock, rootPolicy,
                    pbList, allClusterDecisions, err, envLeft, histVars >>

\* lines 304-336: one iteration of the pass-2 loop.
Pass2(w) ==
    /\ pc[w] = "pass2"
    /\ idx[w] <= Len(pbList[w])
    /\ LET pb == pbList[w][idx[w]] IN
         IF pb.SubFilter # Restricted THEN
            /\ idx' = [idx EXCEPT ![w] = @ + 1]
            /\ UNCHANGED << pc, allClusterDecisions, decisions, placements, err, ops,
                            faulty, envLeft >>
         ELSE
            \E f \in ResolverFaults(pb) :
              LET r == getPolicyPlacementDecisions(rootPolicy[w], pb, f) IN
                /\ ops' = [ops EXCEPT ![w] = @ \cup (IF r.err # Nil THEN {"resolve", "resolveFailed"}
                                                     ELSE {"resolve"})]
                /\ faulty' = [faulty EXCEPT ![w] = @ \/ f.sets # {}]
                /\ Charge(f # NoFaults)
                /\ IF BuildFails(r.err) THEN
                      /\ Abort(w)
                      /\ UNCHANGED idx
                   ELSE
                      /\ allClusterDecisions' = [allClusterDecisions EXCEPT
                                         ![w] = MergeAll(2, @, r.decisions, 1, pb)]
                      /\ placements' = [placements EXCEPT ![w] =
                             IF FoundInDecisions(allClusterDecisions[w], r.decisions)
                             THEN @ \o r.placements ELSE @]
                      /\ idx' = [idx EXCEPT ![w] = @ + 1]
                      /\ UNCHANGED << pc, err, decisions >>
    /\ UNCHANGED << storeVars, lockVars, config, request, lock, rootPolicy,
                    pbList, remaining, status, lookupErr,
                    dirty, lastHolder, lastRun, anyFailed, prevStatus, cleanWrites >>

\* lines 338-342: the final sort and return of the builder.
Pass2Done(w) ==
    /\ pc[w] = "pass2"
    /\ idx[w] > Len(pbList[w])
    /\ StartAggregation(w, allClusterDecisions[w], sortPlacements(placements[w]))
    /\ UNCHANGED << storeVars, lockVars, config, request, lock, rootPolicy,
                    pbList, idx, allClusterDecisions, err, envLeft, histVars >>

\* The entry calculatePerClusterStatus appends for one decision (lines 393-416):
\* got is the replica's compliance state, NotFound, or a failed Get.
GetFailed == "GetFailed"

\* An entry that reports the outcome of a failed Get as the compliance state.
failureAsState(dec, got) ==
    [ComplianceState |-> IF got = NotFound THEN "" ELSE got,
     ClusterName |-> dec.ClusterName, ClusterNamespace |-> dec.ClusterNamespace]

PerClusterStatus(dec, got) ==
    [ComplianceState |-> IF got \in {NotFound, GetFailed} THEN "" ELSE got,
     ClusterName |-> dec.ClusterName, ClusterNamespace |-> dec.ClusterNamespace]

\* The error a failed replica Get returns, told apart by the object it was for.
ReplicaErr(dec) == dec.ClusterNamespace

\* lookupErr after one iteration (line 409).
NextLookupErr(old, dec, got) == IF got = GetFailed THEN ReplicaErr(dec) ELSE old

\* lines 392-417: one iteration of the loop over the decision map, in any order.
Aggregate(w) ==
    /\ pc[w] = "aggregate"
    /\ ~rootPolicy[w].Disabled
    /\ \E dec \in remaining[w] :
         \E fail \in FaultChoices :
          LET got == IF fail THEN GetFailed
                     ELSE replicas[<< dec.ClusterNamespace, rootPolicy[w].Name >>] IN
            /\ Charge(fail)
            /\ remaining' = [remaining EXCEPT ![w] = @ \ {dec}]
            /\ status' = [status EXCEPT ![w] = Append(@, PerClusterStatus(dec, got))]
            /\ lookupErr' = [lookupErr EXCEPT ![w] = NextLookupErr(@, dec, got)]
            /\ faulty' = [faulty EXCEPT ![w] = @ \/ got = GetFailed]
    /\ ops' = [ops EXCEPT ![w] = @ \cup {"replica"}]
    /\ UNCHANGED << storeVars, lockVars, config, pc, request, lock,
                    rootPolicy, pbList, idx, allClusterDecisions, decisions, placements, err,
                    dirty, lastHolder, lastRun, anyFailed, prevStatus, cleanWrites >>

\* A writer that gives up when the aggregator reports an error.
AbortOnLookupErr(cpcsErr) == IF cpcsErr # Nil THEN "unlock" ELSE "refresh"

\* rootStatusUpdate lines 129-133: an aggregation error is logged and ignored.
AfterAggregation(cpcsErr) == "refresh"

\* lines 384-386 and 419-423: the aggregator returns.
AggregateDone(w) ==
    /\ pc[w] = "aggregate"
    /\ rootPolicy[w].Disabled \/ remaining[w] = {}
    /\ status' = [status EXCEPT ![w] =
                     IF rootPolicy[w].Disabled THEN << >> ELSE sortStatus(@)]
    /\ pc' = [pc EXCEPT ![w] = AfterAggregation(lookupErr[w])]
    /\ err' = [err EXCEPT ![w] = IF AfterAggregation(lookupErr[w]) = "unlock"
                                  THEN lookupErr[w] ELSE @]
    /\ UNCHANGED << storeVars, lockVars, config, request, lock, rootPolicy,
                    pbList, idx, allClusterDecisions, decisions, placements, remaining, lookupErr,
                    envLeft, histVars >>

\* A writer that gives up when the refresh fails.
abortOnRefreshErr(refreshErr) == IF refreshErr THEN "unlock" ELSE "update"

\* lines 140-142: an error of the refresh is logged and the writer goes on.
AfterRefresh(refreshErr) == "update"

\* lines 135-142: the refresh; on any failure the copy read first is kept.
Refresh(w) ==
    /\ pc[w] = "refresh"
    /\ \E fail \in FaultChoices :
         LET refreshErr == fail \/ ~policies[request[w]].Exists IN
         /\ Charge(fail)
         /\ ops' = [ops EXCEPT ![w] = @ \cup (IF refreshErr THEN {"refresh", "refreshFailed"}
                                              ELSE {"refresh"})]
         /\ rootPolicy' = [rootPolicy EXCEPT ![w] =
               IF refreshErr THEN @ ELSE StoredPolicy(request[w])]
         /\ pc' = [pc EXCEPT ![w] = AfterRefresh(refreshErr)]
    /\ UNCHANGED << storeVars, lockVars, config, request, lock, pbList, idx,
                    allClusterDecisions, decisions, placements, remaining, status, lookupErr, err,
                    faulty, dirty, lastHolder, lastRun, anyFailed, prevStatus, cleanWrites >>

\* A status whose aggregate is not computed from the per-target list.
staleAggregate(cpcs, pls) ==
    [Status |-> cpcs, ComplianceState |-> "", Placement |-> pls]

\* lines 148-150: the status the writer puts on the root.
NewStatus(cpcs, pls) ==
    [Status |-> cpcs, ComplianceState |-> CalculateRootCompliance(cpcs), Placement |-> pls]

\* lines 144-157: overwrite the three status fields and persist them.
Update(w) ==
    /\ pc[w] = "update"
    /\ LET k == request[w]
           new == NewStatus(status[w], placements[w])
       IN /\ rootPolicy' = [rootPolicy EXCEPT ![w].Status = new]
          /\ \E fail \in FaultChoices :
             /\ Charge(fail)
             /\ IF fail \/ ~policies[k].Exists THEN
                  /\ ops' = [ops EXCEPT ![w] = @ \cup {"update"}]
                  /\ err' = [err EXCEPT ![w] = ErrUpdate]
                  /\ UNCHANGED << policies, prevStatus, cleanWrites >>
               ELSE
                  /\ ops' = [ops EXCEPT ![w] = @ \cup {"update", "persisted"}]
                  /\ policies' = [policies EXCEPT ![k].Status = new]
                  /\ err' = [err EXCEPT ![w] = Nil]
                  /\ prevStatus' = [prevStatus EXCEPT ![k] = policies[k].Status]
                  /\ cleanWrites' = [cleanWrites EXCEPT ![k] =
                        IF faulty[w] \/ dirty[k] THEN 0 ELSE IF @ = 0 THEN 1 ELSE 2]
    /\ pc' = [pc EXCEPT ![w] = "unlock"]
    /\ UNCHANGED << bindings, policySets, groupings, clusterDecisions, replicas, lockVars,
                    config, request, lock, pbList, idx, allClusterDecisions, decisions,
                    placements, remaining, status, lookupErr,
                    faulty, dirty, lastHolder, lastRun, anyFailed >>

NoMutex == [by |-> 0, for |-> ""]

\* A return that leaves the mutex locked.
keptLocked(held, mu) == held

\* sync.Mutex.Unlock: the held mutexes once mu is released.
Released(held, mu) == held \ {mu}

\* line 94: the deferred Unlock, as Reconcile returns.
Unlock(w) ==
    /\ pc[w] = "unlock"
    /\ locked' = Released(locked, lock[w])
    /\ pc' = [pc EXCEPT ![w] = "done"]
    /\ lastRun' = [lastRun EXCEPT ![request[w]] =
                     IF lastHolder[request[w]] # w THEN @
                     ELSE IF err[w] # Nil THEN "failed"
                     ELSE IF faulty[w] THEN "faulty" ELSE "ok"]
    /\ anyFailed' = [anyFailed EXCEPT ![request[w]] = @ \/ err[w] # Nil]
    /\ request' = [request EXCEPT ![w] = ""]
    /\ err' = [err EXCEPT ![w] = Nil]
    /\ ops' = [ops EXCEPT ![w] = {}]
    /\ faulty' = [faulty EXCEPT ![w] = FALSE]
    /\ lock' = [lock EXCEPT ![w] = NoMutex]
    /\ rootPolicy' = [rootPolicy EXCEPT ![w] = NoPolicy]
    /\ pbList' = [pbList EXCEPT ![w] = << >>]
    /\ idx' = [idx EXCEPT ![w] = 1]
    /\ allClusterDecisions' = [allClusterDecisions EXCEPT ![w] = EmptyMap]
    /\ decisions' = [decisions EXCEPT ![w] = EmptyMap]
    /\ placements' = [placements EXCEPT ![w] = << >>]
    /\ remaining' = [remaining EXCEPT ![w] = {}]
    /\ status' = [status EXCEPT ![w] = << >>]
    /\ lookupErr' = [lookupErr EXCEPT ![w] = Nil]
    /\ UNCHANGED << storeVars, RootPolicyLocks, config, envLeft,
                    dirty, lastHolder, prevStatus, cleanWrites >>

\* ------------------------------------------------------- the environment
\* Other actors change the store; each change is one of the events that make
\* the framework deliver a reconcile request.
EnvChange(keys) ==
    /\ envLeft > 0
    /\ envLeft' = envLeft - 1
    /\ dirty' = [k \in Roots |-> IF k \in keys THEN TRUE ELSE dirty[k]]
    /\ cleanWrites' = [k \in Roots |-> IF k \in keys THEN 0 ELSE cleanWrites[k]]
    /\ UNCHANGED << lockVars, config, localVars,
                    ops, faulty, lastHolder, lastRun, anyFailed, prevStatus >>

NextCompliance(v) ==
    IF v = NotFound THEN "Compliant" ELSE IF v = "Compliant" THEN "NonCompliant" ELSE NotFound

ReplicaChange(ns, k) ==
    /\ policies[k].Exists
    /\ replicas' = [replicas EXCEPT ![<< ns, k >>] = NextCompliance(@)]
    /\ EnvChange({k})
    /\ UNCHANGED << policies, bindings, policySets, groupings, clusterDecisions >>

SetDisabled(k) ==
    /\ policies[k].Exists
    /\ policies' = [policies EXCEPT ![k].Disabled = ~@]
    /\ EnvChange({k})
    /\ UNCHANGED << bindings, policySets, groupings, clusterDecisions, replicas >>

DeleteRoot(k) ==
    /\ policies[k].Exists
    /\ policies' = [policies EXCEPT ![k].Exists = FALSE]
    /\ EnvChange({k})
    /\ UNCHANGED << bindings, policySets, groupings, clusterDecisions, replicas >>

SetSubFilter(n) ==
    /\ n \in DOMAIN bindings
    /\ bindings' = [bindings EXCEPT ![n].SubFilter = IF @ = Restricted THEN "" ELSE Restricted]
    /\ EnvChange(Roots)
    /\ UNCHANGED << policies, policySets, groupings, clusterDecisions, replicas >>

DecisionsChange(g) ==
    /\ clusterDecisions[g] # << >>
    /\ clusterDecisions' = [clusterDecisions EXCEPT ![g] = SubSeq(@, 1, Len(@) - 1)]
    /\ EnvChange(Roots)
    /\ UNCHANGED << policies, bindings, policySets, groupings, replicas >>

\* ------------------------------------------------------------ behaviours
TplDirectDup ==
    [Subjects |-> SubjDirectDup, Kind |-> "PlacementRule", Ref |-> "", RemediationAction |-> ""]

InitStoreFixed ==
    /\ policySets = ("s1" :> {"p1"}) @@ ("s2" :> {"p2"})
    /\ groupings = { [Kind |-> "PlacementRule", Name |-> "g1"], [Kind |-> "Placement", Name |-> "g3"] }
    /\ clusterDecisions = ("g1" :> << tA, tB >>) @@ ("g2" :> << tB, tC >>) @@ ("g3" :> << tC, tC >>)
    /\ replicas = [x \in ReplicaNamespaces \X Roots |->
                     IF x = << "ns1", "p1" >> THEN "Compliant"
                     ELSE IF x = << "ns3", "p1" >> THEN "NonCompliant"
                     ELSE NotFound]

InitReconciler ==
    /\ RootPolicyLocks = EmptyMap
    /\ locked = {}
    /\ pc = [w \in Workers |-> "idle"]
    /\ request = [w \in Workers |-> ""]
    /\ lock = [w \in Workers |-> NoMutex]
    /\ rootPolicy = [w \in Workers |-> NoPolicy]
    /\ pbList = [w \in Workers |-> << >>]
    /\ idx = [w \in Workers |-> 1]
    /\ allClusterDecisions = [w \in Workers |-> EmptyMap]
    /\ decisions = [w \in Workers |-> EmptyMap]
    /\ placements = [w \in Workers |-> << >>]
    /\ remaining = [w \in Workers |-> {}]
    /\ status = [w \in Workers |-> << >>]
    /\ lookupErr = [w \in Workers |-> Nil]
    /\ err = [w \in Workers |-> Nil]
    /\ ops = [w \in Workers |-> {}]
    /\ faulty = [w \in Workers |-> FALSE]
    /\ dirty = [k \in Roots |-> TRUE]
    /\ lastHolder = [k \in Roots |-> 0]
    /\ lastRun = [k \in Roots |-> "none"]
    /\ anyFailed = [k \in Roots |-> FALSE]
    /\ prevStatus = [k \in Roots |-> EmptyStatus]
    /\ cleanWrites = [k \in Roots |-> 0]

\* Concurrent workers on one scenario, with the store changing under them.
Init ==
    /\ InitStoreFixed
    /\ InitReconciler
    /\ policies = [k \in Roots |-> [Exists |-> TRUE, Disabled |-> FALSE, Status |-> EmptyStatus]]
    /\ bindings = (1 :> Binding(1, "", TplDirectDup))
    /\ maxConcurrentReconciles = NumWorkers
    /\ requestKeys = {"p1"}
    /\ envLeft = MaxEnvChanges

Reconcile(w) ==
    \/ \E k \in Roots : DoLoadOrStore(w, k)
    \/ Lock(w)
    \/ GetRoot(w)
    \/ ListBindings(w)
    \/ Pass1(w)
    \/ Pass1Done(w)
    \/ Pass2(w)
    \/ Pass2Done(w)
    \/ Aggregate(w)
    \/ AggregateDone(w)
    \/ Refresh(w)
    \/ Update(w)
    \/ Unlock(w)

Environment ==
    \/ \E ns \in ReplicaNamespaces, k \in requestKeys : ReplicaChange(ns, k)
    \/ \E k \in requestKeys : SetDisabled(k)
    \/ \E k \in requestKeys : DeleteRoot(k)
    \/ \E n \in DOMAIN bindings : SetSubFilter(n)
    \/ \E n \in DOMAIN bindings : DecisionsChange(bindings[n].PlacementRef.Name)

Next == (\E w \in Workers : Reconcile(w)) \/ Environment

Spec == Init /\ [][Next]_vars

\* One worker, one request, every store of bindings, the root enabled or
\* disabled: the builder and the aggregator as functions of their inputs.
InitBuild ==
    /\ InitStoreFixed
    /\ InitReconciler
    /\ \E dis \in BOOLEAN :
         policies = [k \in Roots |-> [Exists |-> TRUE, Disabled |-> (dis /\ k = "p1"),
                                      Status |-> EmptyStatus]]
    /\ bindings \in BindingStores
    /\ maxConcurrentReconciles = 1
    /\ requestKeys = {"p1"}
    /\ envLeft = MaxFaults

NextBuild == \E w \in Workers : Reconcile(w)

BuildSpec == InitBuild /\ [][NextBuild]_vars

\* ------------------------------------------------ what the store implies
\* Stated from the store alone, not from the reconciler's steps.
NamesPolicy(b, k) ==
    \E i \in DOMAIN b.Subjects :
        b.Subjects[i] = Subject(PolicyGroup, PolicyKind, k)
SetsWith(b, k) ==
    { sn \in DOMAIN policySets :
        /\ k \in policySets[sn]
        /\ \E i \in DOMAIN b.Subjects : b.Subjects[i] = Subject(PolicyGroup, PolicySetKind, sn) }
References(b, k) == NamesPolicy(b, k) \/ SetsWith(b, k) # {}
TargetsOf(b) == Range(clusterDecisions[b.PlacementRef.Name])
GroupingName(b, kind) ==
    IF b.PlacementRef.Kind = kind /\ [Kind |-> kind, Name |-> b.PlacementRef.Name] \in groupings
    THEN b.PlacementRef.Name ELSE ""
RecordsOf(b, k) ==
    { [PlacementBinding |-> b.Name, PolicySet |-> ps,
       PlacementRule |-> GroupingName(b, "PlacementRule"),
       Placement |-> GroupingName(b, "Placement")] :
        ps \in (IF NamesPolicy(b, k) THEN {""} ELSE {}) \cup SetsWith(b, k) }
Unrestricted(bs) == { b \in bs : b.SubFilter # Restricted }
StoredBindings == Range(bindings)

ExpectedTargets(k) ==
    IF policies[k].Disabled THEN {}
    ELSE UNION { TargetsOf(b) : b \in { x \in Unrestricted(StoredBindings) : References(x, k) } }
ExpectedEntries(k) ==
    { [ComplianceState |-> IF replicas[<< t.ClusterNamespace, k >>] = NotFound THEN ""
                           ELSE replicas[<< t.ClusterNamespace, k >>],
       ClusterName |-> t.ClusterName, ClusterNamespace |-> t.ClusterNamespace] :
        t \in ExpectedTargets(k) }
ExpectedRecords(k) ==
    UNION { RecordsOf(b, k) :
              b \in { x \in StoredBindings :
                        \/ x.SubFilter # Restricted
                        \/ TargetsOf(x) \cap ExpectedTargets(k) # {} } }
StatusIsCurrent(k) ==
    LET st == policies[k].Status IN
      /\ Range(st.Status) = ExpectedEntries(k)
      /\ Len(st.Status) = Cardinality(ExpectedEntries(k))
      /\ Range(st.Placement) = ExpectedRecords(k)
      /\ Len(st.Placement) = Cardinality(ExpectedRecords(k))
      /\ st.ComplianceState = CalculateRootCompliance(st.Status)

\* An invocation is at or between its first store read and its last store
\* operation.
InSequence(w) == pc[w] \in {"getRoot", "list", "pass1", "pass2", "aggregate", "refresh", "update"}
\* No invocation for root k is in progress.
Quiescent(k) == \A w \in Workers : request[w] # k

\* ------------------------------------------------------------------ claims
\* C1: two Reconcile invocations for the same root never interleave their
\* read-modify-write sequences: while one is at or between its first store
\* read and its status Update, no other invocation for that root is.
C1_NoInterleaving ==
    \A w, v \in Workers :
        (w # v /\ request[w] = request[v]) => ~(InSequence(w) /\ InSequence(v))

\* C1 witness: one invocation is about to persist the status while another
\* for the same root waits for the lock.
C1_Witness ==
    \E w, v \in Workers :
        /\ w # v /\ request[w] = request[v]
        /\ pc[w] = "update" /\ pc[v] = "lock" /\ lock[w] = lock[v]

C7_Idempotent ==
    \A k \in Roots : cleanWrites[k] = 2 => policies[k].Status = prevStatus[k]

\* ------------------------------------------------ the builder's results
\* The Decision-Set Builder has returned without error to worker w.
BuilderReturned(w) == pc[w] \in {"aggregate", "refresh", "update"}
\* The aggregator has returned to worker w.
AggregatorReturned(w) == pc[w] \in {"refresh", "update"}
\* Pass 1 over the listed bindings is complete.
Pass1Complete(w) == pc[w] = "pass1" /\ idx[w] > Len(pbList[w])
Listed(w) == Range(pbList[w])
\* The listed bindings that reference the root of worker w in the store.
Referencing(w) == { b \in Listed(w) : References(b, rootPolicy[w].Name) }
\* The listed bindings that contribute target t for the root of worker w.
Contributors(w, t) ==
    { b \in Referencing(w) : ~rootPolicy[w].Disabled /\ t \in TargetsOf(b) }
DeclaresEnforce(b) == ToLower(b.RemediationAction) = "enforce"
SortedByBinding(q) == \A i, j \in DOMAIN q : i < j => q[i].PlacementBinding <= q[j].PlacementBinding
SortedByCluster(q) == \A i, j \in DOMAIN q : i < j => q[i].ClusterName <= q[j].ClusterName

\* C3: a target is in the DecisionSet only if an unrestricted binding that
\* references the policy resolves it; when every binding that references the
\* policy is restricted the DecisionSet is empty.
C3_OnlyUnrestricted ==
    \A w \in Workers :
        /\ BuilderReturned(w) =>
              /\ \A t \in DOMAIN decisions[w] : Unrestricted(Contributors(w, t)) # {}
              /\ (Unrestricted(Referencing(w)) = {} => DOMAIN decisions[w] = {})
        /\ pc[w] = "pass2" =>
              \A t \in DOMAIN allClusterDecisions[w] :
                  Unrestricted(Contributors(w, t)) # {}

\* C3 witness: the builder returned a non-empty DecisionSet although a
\* restricted binding resolved a target that no unrestricted binding did.
C3_Witness ==
    \E w \in Workers :
        /\ BuilderReturned(w) /\ DOMAIN decisions[w] # {}
        /\ \E b \in Listed(w) : \E t \in Targets :
              /\ b.SubFilter = Restricted /\ b \in Contributors(w, t)
              /\ t \notin DOMAIN decisions[w]

\* C4: with no restricted binding listed and every resolver call successful,
\* the keys of the merged map are the union of the targets of the bindings and
\* a target's override is "enforce" exactly when a binding that returned it
\* declares enforce in any letter case.
C4_UnionAndEnforce ==
    \A w \in Workers :
        (/\ Pass1Complete(w) /\ ~faulty[w]
         /\ \A b \in Listed(w) : b.SubFilter # Restricted)
        => /\ DOMAIN allClusterDecisions[w] = { t \in Targets : Contributors(w, t) # {} }
           /\ \A t \in DOMAIN allClusterDecisions[w] :
                 allClusterDecisions[w][t].RemediationAction = "enforce"
                 <=> \E b \in Contributors(w, t) : DeclaresEnforce(b)

\* C4 witness: a target inserted by a binding without override was upgraded by
\* a later binding that declares "Enforce", while another target stayed as is.
C4_Witness ==
    \E w \in Workers :
        /\ Pass1Complete(w) /\ ~faulty[w] /\ Len(pbList[w]) = 2
        /\ \A b \in Listed(w) : b.SubFilter # Restricted
        /\ pbList[w][1].RemediationAction = "" /\ pbList[w][2].RemediationAction = "Enforce"
        /\ \E t, u \in DOMAIN allClusterDecisions[w] :
              /\ allClusterDecisions[w][t].RemediationAction = "enforce"
              /\ allClusterDecisions[w][u].RemediationAction = ""

\* C5 as claimed: for a disabled root the DecisionSet and the per-target list
\* are empty and the placement list is non-empty whenever some listed binding
\* references the policy.
C5_AsClaimed ==
    \A w \in Workers :
        (AggregatorReturned(w) /\ rootPolicy[w].Disabled) =>
            /\ DOMAIN decisions[w] = {} /\ status[w] = << >>
            /\ (Referencing(w) # {} => placements[w] # << >>)

\* C5 as amended: for a disabled root, when the builder returns without error,
\* the DecisionSet and the per-target list are empty and, no policy-set lookup
\* having failed, the placement list is non-empty exactly when some
\* unrestricted listed binding references the policy.
C5_DisabledRoot ==
    \A w \in Workers :
        (AggregatorReturned(w) /\ rootPolicy[w].Disabled) =>
            /\ DOMAIN decisions[w] = {} /\ status[w] = << >>
            /\ (~faulty[w] => (Unrestricted(Referencing(w)) # {} <=> placements[w] # << >>))

\* C5 witness: a disabled root with an unrestricted and a restricted binding
\* that both reference it; only the unrestricted one is reported.
C5_Witness ==
    \E w \in Workers :
        /\ AggregatorReturned(w) /\ rootPolicy[w].Disabled /\ ~faulty[w]
        /\ placements[w] # << >>
        /\ \E b, c \in Referencing(w) :
              /\ b.SubFilter # Restricted /\ c.SubFilter = Restricted
              /\ \A i \in DOMAIN placements[w] : placements[w][i].PlacementBinding # c.Name

\* C6: the placement records the builder returns are in non-decreasing order
\* of binding name and the statuses the aggregator returns are in
\* non-decreasing order of cluster name.
C6_Ordered ==
    \A w \in Workers :
        /\ BuilderReturned(w) => SortedByBinding(placements[w])
        /\ AggregatorReturned(w) => SortedByCluster(status[w])

\* C6 witness: the bindings were listed in decreasing order of name, both
\* contributed records, and targets of two cluster names were aggregated.
C6_Witness ==
    \E w \in Workers :
        /\ AggregatorReturned(w) /\ Len(pbList[w]) = 2
        /\ pbList[w][1].Name > pbList[w][2].Name
        /\ \E i, j \in DOMAIN placements[w] :
              placements[w][i].PlacementBinding < placements[w][j].PlacementBinding
        /\ \E i, j \in DOMAIN status[w] : status[w][i].ClusterName < status[w][j].ClusterName

\* C8: once the List of the bindings or a resolver call has failed, the cycle
\* is over: nothing of the build is kept, no replica was looked up, no refresh
\* and no Update was made, the stored status is the one read at the start and
\* Reconcile returns an error.
C8_BuildErrorAborts ==
    \A w \in Workers :
        (ops[w] \cap {"listFailed", "resolveFailed"} # {}) =>
            /\ pc[w] = "unlock" /\ err[w] # Nil
            /\ decisions[w] = EmptyMap /\ placements[w] = << >>
            /\ ops[w] \cap {"replica", "refresh", "update", "persisted"} = {}
            /\ policies[request[w]].Status = rootPolicy[w].Status

\* C8 witness: the resolver failed on the second listed binding, after the
\* first had been merged.
C8_Witness ==
    \E w \in Workers :
        /\ "resolveFailed" \in ops[w] /\ pc[w] = "unlock" /\ idx[w] = 2
        /\ Referencing(w) = Listed(w) /\ err[w] = ErrDecisions

\* C9 as claimed: the builder never returns a result for a binding list that
\* holds a binding with an invalid placement reference, and no status is
\* written for it.
C9_AsClaimed ==
    \A w \in Workers :
        (\E b \in Listed(w) : ~HasValidPlacementRef(b)) =>
            ~BuilderReturned(w) /\ "update" \notin ops[w]

\* C9 as amended: the builder returns a result for a binding list that holds a
\* binding with an invalid placement reference only when every such binding is
\* restricted and the unrestricted bindings resolved no target (pass 2 is then
\* skipped); in every other case the computation is aborted.
C9_InvalidRefAborts ==
    \A w \in Workers :
        ((\E b \in Listed(w) : ~HasValidPlacementRef(b))
         /\ (BuilderReturned(w) \/ "update" \in ops[w]))
        => /\ \A b \in Listed(w) : ~HasValidPlacementRef(b) => b.SubFilter = Restricted
           /\ DOMAIN decisions[w] = {}

\* C9 witness: an invalid restricted binding was listed after a valid
\* unrestricted one that resolved targets, and the cycle was aborted.
C9_Witness ==
    \E w \in Workers :
        /\ pc[w] = "unlock" /\ err[w] = ErrDecisions /\ "resolveFailed" \in ops[w]
        /\ envLeft = MaxFaults
        /\ \E b, c \in Listed(w) :
              /\ b.SubFilter # Restricted /\ HasValidPlacementRef(b)
              /\ b \in Referencing(w) /\ ~rootPolicy[w].Disabled
              /\ c.SubFilter = Restricted /\ ~HasValidPlacementRef(c)

\* C10: an error of the aggregator does not end the cycle: the refresh and the
\* Update are still made, and when the Update succeeds the stored status is
\* the one built from the aggregator's output and Reconcile returns nil.
C10_LookupErrIgnored ==
    \A w \in Workers :
        (lookupErr[w] # Nil /\ pc[w] = "unlock") =>
            /\ {"refresh", "update"} \subseteq ops[w]
            /\ "persisted" \in ops[w] =>
                  /\ err[w] = Nil
                  /\ policies[request[w]].Status = NewStatus(status[w], placements[w])

\* C10 witness: one replica Get failed, another succeeded, and the partial
\* list was persisted.
C10_Witness ==
    \E w \in Workers :
        /\ lookupErr[w] # Nil /\ pc[w] = "unlock" /\ "persisted" \in ops[w]
        /\ \E i, j \in DOMAIN status[w] :
              status[w][i].ComplianceState = "" /\ status[w][j].ComplianceState # ""

\* ------------------------------------------------------- the aggregator
\* The target an entry of the per-target list is for.
TargetOf(e) == [ClusterName |-> e.ClusterName, ClusterNamespace |-> e.ClusterNamespace]
EntryTargets(st) == { TargetOf(st[i]) : i \in DOMAIN st }
\* The compliance state stored on the replica of root k in namespace ns, empty
\* when there is no replica.
ReplicaState(ns, k) ==
    IF replicas[<< ns, k >>] = NotFound THEN "" ELSE replicas[<< ns, k >>]
\* The entry expected for target dec of worker w's root, failed telling
\* whether the Get of the replica failed.
EntryFor(w, dec, failed) ==
    [ComplianceState |-> IF failed THEN ""
                         ELSE ReplicaState(dec.ClusterNamespace, rootPolicy[w].Name),
     ClusterName |-> dec.ClusterName, ClusterNamespace |-> dec.ClusterNamespace]
\* Worker w's step processes one target of the decision set.
LooksUp(w) == pc[w] = "aggregate" /\ pc'[w] = "aggregate" /\ remaining'[w] # remaining[w]
\* The store call of the step failed.
CallFailed == envLeft' < envLeft

\* C11 (state part): while the aggregator runs, the entries made so far and
\* the targets still to process partition the DecisionSet; when it has
\* returned for an enabled root there is exactly one entry per target, each
\* with the replica's state or the empty state.
C11_OnePerTarget ==
    \A w \in Workers :
        /\ (pc[w] = "aggregate" /\ ~rootPolicy[w].Disabled) =>
              /\ EntryTargets(status[w]) \cup remaining[w] = DOMAIN decisions[w]
              /\ EntryTargets(status[w]) \cap remaining[w] = {}
              /\ Len(status[w]) = Cardinality(EntryTargets(status[w]))
        /\ (AggregatorReturned(w) /\ ~rootPolicy[w].Disabled) =>
              /\ EntryTargets(status[w]) = DOMAIN decisions[w]
              /\ Len(status[w]) = Cardinality(DOMAIN decisions[w])
              /\ \A i \in DOMAIN status[w] :
                    status[w][i].ComplianceState
                        \in {"", ReplicaState(status[w][i].ClusterNamespace, rootPolicy[w].Name)}

\* C11 (step part): processing a target appends exactly the entry of that
\* target, with the replica's state when the Get succeeded and the empty state
\* when the replica was not found or the Get failed, and leaves the entries of
\* the other targets as they are; the final sort only reorders the entries.
C11_StepAppends ==
    \A w \in Workers :
        /\ LooksUp(w) =>
              \E dec \in remaining[w] :
                 /\ remaining'[w] = remaining[w] \ {dec}
                 /\ status'[w] = Append(status[w], EntryFor(w, dec, CallFailed))
        /\ (pc[w] = "aggregate" /\ pc'[w] = "refresh" /\ ~rootPolicy[w].Disabled) =>
              /\ Range(status'[w]) = Range(status[w])
              /\ Len(status'[w]) = Len(status[w])

\* C11: for an enabled root the aggregator's output has exactly one entry per
\* target of the DecisionSet, with the replica's compliance state when it was
\* fetched and the empty state when it was not found or the fetch failed, and a
\* failed fetch leaves the entries of the other targets untouched.
C11_ExactlyOneEntry == [] C11_OnePerTarget /\ [][C11_StepAppends]_vars

\* C11 witness: three targets were aggregated; the fetch of one failed, one
\* replica is compliant and one is missing.
C11_Witness ==
    \E w \in Workers :
        /\ pc[w] = "refresh" /\ Len(status[w]) = 3 /\ lookupErr[w] = "ns3"
        /\ \E i \in DOMAIN status[w] : status[w][i].ComplianceState = "Compliant"
        /\ \A i \in DOMAIN status[w] :
              status[w][i].ClusterNamespace = "ns3" => status[w][i].ComplianceState = ""

\* The target worker w's step processes.
Processed(w) == CHOOSE dec \in remaining[w] : remaining'[w] = remaining[w] \ {dec}

\* C12 as claimed: the error the aggregator keeps is the first non-not-found
\* error of a replica Get in processing order: a step sets it when none is
\* kept and the Get fails, and leaves it as it is otherwise; not-found and
\* successful Gets never set it.
C12_FirstErrorStep ==
    \A w \in Workers :
        LooksUp(w) =>
            lookupErr'[w] = IF lookupErr[w] # Nil THEN lookupErr[w]
                            ELSE IF CallFailed THEN ReplicaErr(Processed(w))
                            ELSE Nil
C12_FirstErrorKept == [][C12_FirstErrorStep]_vars

\* ------------------------------------------------------ the entry point
\* Worker w's step is the initial load of the root.
Loads(w) == pc[w] = "getRoot" /\ pc'[w] # "getRoot"
\* Reconcile is about to return to worker w's caller (the lock still held).
Returning(w) == pc[w] = "unlock"
\* rootStatusUpdate was invoked in worker w's invocation.
WriterInvoked(w) == "list" \in ops[w]
\* The error rootStatusUpdate returns, from what happened inside it.
WriterError(w) ==
    IF ops[w] \cap {"listFailed", "resolveFailed"} # {} THEN ErrDecisions
    ELSE IF "persisted" \notin ops[w] THEN ErrUpdate
    ELSE Nil

\* C13 as claimed: the initial load has two outcomes only: the root exists and
\* the writer is invoked, or the root is absent and Reconcile returns success
\* without a write.
C13_TwoOutcomesStep ==
    \A w \in Workers :
        Loads(w) =>
            IF policies[request[w]].Exists THEN pc'[w] = "list"
            ELSE pc'[w] = "unlock" /\ err'[w] = Nil
C13_AsClaimed == [][C13_TwoOutcomesStep]_vars

\* C13 (step part, amended): the initial load has three outcomes: the Get
\* fails with an error other than not-found and Reconcile returns an error;
\* the root is not found and Reconcile returns success; the root is read and
\* the writer is invoked.
C13_ThreeOutcomesStep ==
    \A w \in Workers :
        Loads(w) =>
            IF CallFailed THEN pc'[w] = "unlock" /\ err'[w] # Nil
            ELSE IF policies[request[w]].Exists THEN pc'[w] = "list"
            ELSE pc'[w] = "unlock" /\ err'[w] = Nil

\* C13 (state part): when Reconcile returns, either the writer was invoked and
\* its error is what is returned, or it was not and nothing was written.
C13_ReturnsWriterError ==
    \A w \in Workers :
        Returning(w) =>
            IF WriterInvoked(w) THEN err[w] = WriterError(w)
            ELSE /\ ops[w] = {"getRoot"}
                 /\ err[w] \in {Nil, ErrGetRoot}

\* C13 as amended: every request is handled in one of three ways: the root is
\* read and the writer's error is what Reconcile returns; the root is not
\* found and Reconcile writes nothing and returns success; the initial Get
\* fails otherwise and Reconcile writes nothing and returns an error.
C13_RequestOutcomes == [] C13_ReturnsWriterError /\ [][C13_ThreeOutcomesStep]_vars

\* C13 witness: the root was deleted before the load; Reconcile is returning
\* success with the load as its only store call.
C13_Witness ==
    \E w \in Workers :
        /\ Returning(w) /\ ~policies[request[w]].Exists
        /\ ops[w] = {"getRoot"} /\ err[w] = Nil /\ envLeft = 0

\* ------------------------------------------------------------- pass 2
\* The builder's result holds a placement record of binding b.
Reported(w, b) == \E i \in DOMAIN placements[w] : placements[w][i].PlacementBinding = b.Name
\* Binding b resolves a target that is in the target map of worker w (pass 2
\* adds no key, so the keys are those left by pass 1).
Matches(w, b) == ~rootPolicy[w].Disabled /\ TargetsOf(b) \cap DOMAIN decisions[w] # {}

\* C14: in the builder's result a restricted binding has placement records
\* only if it references the policy and resolved a target that pass 1 had put
\* in the map, and, no policy-set lookup having failed, it then has them; a
\* restricted binding that resolves only other targets adds no target either.
C14_RestrictedRecords ==
    \A w \in Workers :
        BuilderReturned(w) =>
            \A b \in Listed(w) :
                b.SubFilter = Restricted =>
                    /\ Reported(w, b) => (b \in Referencing(w) /\ Matches(w, b))
                    /\ (~faulty[w] /\ b \in Referencing(w) /\ Matches(w, b)) => Reported(w, b)
                    /\ ~Matches(w, b) =>
                          DOMAIN decisions[w] \subseteq
                              { t \in Targets : Unrestricted(Contributors(w, t)) # {} }

\* C14 witness: pass 2 ran over a restricted binding that references the
\* policy and resolves only targets that are not in the map; it is not
\* reported.
C14_Witness ==
    \E w \in Workers :
        /\ BuilderReturned(w) /\ DOMAIN decisions[w] # {} /\ ~faulty[w]
        /\ \E b \in Referencing(w) :
              /\ b.SubFilter = Restricted /\ HasValidPlacementRef(b)
              /\ TargetsOf(b) # {} /\ ~Matches(w, b) /\ ~Reported(w, b)

\* ------------------------------------------------------- the target map
\* Worker w's step is inside one build: a binding was processed, or pass 1
\* handed over to pass 2.
InBuild(w) == pc[w] \in {"pass1", "pass2"} /\ pc'[w] \in {"pass1", "pass2"}

\* C15 (step): no step of a build removes a target from the map or changes an
\* override other than to "enforce"; a step of pass 2 adds no target.
C15_MonotoneStep ==
    \A w \in Workers :
        InBuild(w) =>
            /\ DOMAIN allClusterDecisions[w] \subseteq DOMAIN allClusterDecisions'[w]
            /\ \A t \in DOMAIN allClusterDecisions[w] :
                  allClusterDecisions'[w][t].RemediationAction
                      \in {allClusterDecisions[w][t].RemediationAction, "enforce"}
            /\ pc[w] = "pass2" => DOMAIN allClusterDecisions'[w] = DOMAIN allClusterDecisions[w]

\* C15: during one build a target's override, once "enforce", stays "enforce"
\* through every later binding of pass 1 and pass 2, the set of targets in the
\* map never shrinks, and pass 2 never extends it.
C15_Monotone == [][C15_MonotoneStep]_vars

\* C15 witness: pass 2 has processed a restricted binding without override
\* that resolves a target whose override is "enforce", and a target that is
\* not in the map.
C15_Witness ==
    \E w \in Workers :
        /\ pc[w] = "pass2" /\ idx[w] = 3
        /\ pbList[w][2].SubFilter = Restricted /\ pbList[w][2].RemediationAction = ""
        /\ pbList[w][2] \in Referencing(w)
        /\ \E t \in TargetsOf(pbList[w][2]) \cap DOMAIN allClusterDecisions[w] :
              allClusterDecisions[w][t].RemediationAction = "enforce"
        /\ TargetsOf(pbList[w][2]) \ DOMAIN allClusterDecisions[w] # {}

\* ----------------------------------------------------------- the writer
\* Worker w's step is the refresh Get of the root, the status Update.
Refreshes(w) == pc[w] = "refresh" /\ pc'[w] # "refresh"
Updates(w) == pc[w] = "update" /\ pc'[w] # "update"
\* The refresh Get returns an error: the call failed or the root is gone.
RefreshFails(w) == CallFailed \/ ~policies[request[w]].Exists

\* C16 (step part): a failed refresh leaves the copy of the root as it was
\* read at the start and is followed by the Update; the Update overwrites the
\* three status fields of the copy it has, and leaves its other fields.
C16_RefreshStep ==
    \A w \in Workers :
        /\ (Refreshes(w) /\ RefreshFails(w)) =>
              pc'[w] = "update" /\ rootPolicy'[w] = rootPolicy[w] /\ err'[w] = err[w]
        /\ Updates(w) =>
              rootPolicy'[w] = [rootPolicy[w] EXCEPT !.Status = NewStatus(status[w], placements[w])]

\* C16 (state part): when Reconcile returns after a failed refresh, the
\* Update was attempted and its result is what Reconcile returns.
C16_UpdateAttempted ==
    \A w \in Workers :
        (Returning(w) /\ "refreshFailed" \in ops[w]) =>
            /\ "update" \in ops[w]
            /\ err[w] = IF "persisted" \in ops[w] THEN Nil ELSE ErrUpdate

\* C16: a failed refresh Get of the root, not-found included, does not abort
\* the cycle: the status fields are overwritten on the copy read at the start,
\* the Update is still attempted and its result is Reconcile's result.
C16_RefreshFallback == [] C16_UpdateAttempted /\ [][C16_RefreshStep]_vars

\* C16 witness: the refresh failed although the root is in the store, and the
\* Update that followed persisted the status.
C16_Witness ==
    \E w \in Workers :
        /\ Returning(w) /\ {"refreshFailed", "persisted"} \subseteq ops[w]
        /\ err[w] = Nil /\ policies[request[w]].Status.Status # << >>

\* --------------------------------------------------------- the registry
\* Concurrent invocations for both roots, store calls failing.
InitLocks ==
    /\ InitStoreFixed
    /\ InitReconciler
    /\ policies = [k \in Roots |-> [Exists |-> TRUE, Disabled |-> FALSE, Status |-> EmptyStatus]]
    /\ bindings = (1 :> Binding(1, "", TplDirectDup))
    /\ maxConcurrentReconciles = NumWorkers
    /\ requestKeys = Roots
    /\ envLeft = MaxEnvChanges

LocksSpec == InitLocks /\ [][NextBuild]_vars

\* Worker w holds the mutex it loaded from the registry.
Holds(w) == InSequence(w) \/ pc[w] = "unlock"
\* Worker w has called Reconcile and not returned.
Active(w) == request[w] # ""

\* C17 (state part): every caller for a key has the one mutex registered for
\* that key, callers for different keys have different mutexes, and a caller
\* waiting for its mutex can take it unless an invocation for the same key
\* holds it.
C17_OneLockPerKey ==
    \A w \in Workers :
        Active(w) =>
            /\ request[w] \in DOMAIN RootPolicyLocks
            /\ lock[w] = RootPolicyLocks[request[w]]
            /\ \A v \in Workers :
                  (Active(v) /\ request[v] # request[w]) => lock[v] # lock[w]
            /\ (pc[w] = "lock" /\ \A v \in Workers : request[v] = request[w] => ~Holds(v))
                  => ENABLED Lock(w)

\* C17 (step part): no step removes or replaces an entry of the registry.
C17_EntriesKeptStep ==
    \A k \in DOMAIN RootPolicyLocks :
        k \in DOMAIN RootPolicyLocks' /\ RootPolicyLocks'[k] = RootPolicyLocks[k]

\* C17: all callers for one key obtain the same single lock, also when they
\* race on first use; registry entries are never removed or replaced; holding
\* the lock of one root never blocks a Reconcile of another root.
C17_LockRegistry == [] C17_OneLockPerKey /\ [][C17_EntriesKeptStep]_vars

\* C17 witness: invocations for the two roots are both inside their critical
\* sections, each about to write.
C17_Witness ==
    \E w, v \in Workers :
        /\ request[w] = "p1" /\ request[v] = "p2"
        /\ pc[w] = "update" /\ pc[v] = "update"
        /\ lock[w] \in locked /\ lock[v] \in locked

\* --------------------------------------------------- subject matching
\* The binding worker w resolves next, when there is one.
Resolving(w) == pc[w] \in {"pass1", "pass2"} /\ idx[w] <= Len(pbList[w])
NextBinding(w) == pbList[w][idx[w]]
\* Every way the store calls of one resolver call can go, whatever the budget
\* of failures.
AllFaults(pb) == [sets : SUBSET SetLookups(pb), ref : BOOLEAN, dec : BOOLEAN]
\* The <<binding, policy set>> pairs the records of binding b should have for
\* root k when the membership lookups of the sets in failing fail.
ExpectedPairs(b, k, failing) ==
    (IF NamesPolicy(b, k) THEN {<< b.Name, "" >>} ELSE {})
    \cup { << b.Name, sn >> : sn \in SetsWith(b, k) \ failing }
PairsOf(pls) == { << pls[i].PlacementBinding, pls[i].PolicySet >> : i \in DOMAIN pls }

\* C18: for the binding about to be resolved, if its placement reference is
\* valid, then however the store calls go: when no record results the resolver
\* returns no targets, no records and no error; when the grouping Get and the
\* decision lookup succeed it returns without error exactly one record
\* {binding} iff a Policy subject names the root and one record {binding, set}
\* per distinct PolicySet subject whose set lists the root and whose lookup
\* did not fail.
C18_SubjectMatching ==
    \A w \in Workers :
        (Resolving(w) /\ HasValidPlacementRef(NextBinding(w))) =>
            \A f \in AllFaults(NextBinding(w)) :
                LET pb == NextBinding(w)
                    r == getPolicyPlacementDecisions(rootPolicy[w], pb, f)
                    exp == ExpectedPairs(pb, rootPolicy[w].Name, f.sets)
                IN /\ exp = {} => r = Resolved(<< >>, << >>, Nil)
                   /\ (~f.ref /\ ~f.dec) =>
                         /\ r.err = Nil
                         /\ PairsOf(r.placements) = exp
                         /\ Len(r.placements) = Cardinality(exp)

\* C18 witness: the binding about to be resolved names the root in two Policy
\* subjects and names twice a policy set the root belongs to.
C18_Witness ==
    \E w \in Workers :
        /\ Resolving(w) /\ HasValidPlacementRef(NextBinding(w))
        /\ NextBinding(w).Subjects = SubjDirectDup
        /\ Cardinality(ExpectedPairs(NextBinding(w), rootPolicy[w].Name, {})) = 2
        /\ ExpectedPairs(NextBinding(w), rootPolicy[w].Name, {"s1"}) = {<< NextBinding(w).Name, "" >>}

\* ------------------------------------------------------------ progress
\* The steps of an invocation once Reconcile has been called: every store
\* call returns, and a free mutex is eventually given to a waiting caller.
Proceed(w) ==
    \/ Lock(w)
    \/ GetRoot(w)
    \/ ListBindings(w)
    \/ Pass1(w)
    \/ Pass1Done(w)
    \/ Pass2(w)
    \/ Pass2Done(w)
    \/ Aggregate(w)
    \/ AggregateDone(w)
    \/ Refresh(w)
    \/ Update(w)
    \/ Unlock(w)

\* Every step of Proceed moves the position of its worker, the index of a
\* pass or the targets left to aggregate.
progressVars == << pc, idx, remaining >>

FairSpec == Spec /\ \A w \in Workers : WF_progressVars(Proceed(w))

\* C19 (state part): a mutex is locked only while an invocation that loaded
\* it is between its Lock and its return.
C19_NoLeakedLock == \A mu \in locked : \E w \in Workers : Holds(w) /\ lock[w] = mu

\* C19 (step part): the return of Reconcile releases the mutex, whatever the
\* outcome of the invocation.
C19_ReturnReleases ==
    \A w \in Workers : (Returning(w) /\ pc'[w] = "done") => lock[w] \notin locked'

\* C19: the lock is released on every exit path, so, every store call
\* returning, each invocation that has called Reconcile eventually returns with
\* the lock released: none holds the lock forever and none waits for it
\* forever.
C19_LockReleased ==
    /\ [] C19_NoLeakedLock
    /\ [][C19_ReturnReleases]_vars
    /\ \A w \in Workers : Active(w) ~> ~Active(w)

\* C19 witness: an invocation for the root has returned an error, and the
\* next one has taken the lock after it and is returning as well.
C19_Witness ==
    \E w, v \in Workers :
        /\ pc[w] = "done" /\ anyFailed["p1"]
        /\ Returning(v) /\ request[v] = "p1" /\ lock[v] \in locked

\* ------------------------------------------------------------- C20
\* The step in which worker w's status Update is persisted.
Persists(w) == Updates(w) /\ "persisted" \in ops'[w]
\* The status made of the per-target list, its aggregate and the placement list.
ThreeFields(cpcs, pls) ==
    [Status |-> cpcs, ComplianceState |-> CalculateRootCompliance(cpcs), Placement |-> pls]

\* A step of some Reconcile invocation: each moves the position of its worker,
\* the index of a pass or the targets left to aggregate; a change made by
\* anything else moves none of them.
ReconcileStep == progressVars' # progressVars
StatusOf(ps) == [k \in DOMAIN ps |-> ps[k].Status]

\* C20 (step part): a step of an invocation writes to the store only by
\* persisting an Update; the invocation then holds the mutex registered for
\* the root of its request, which no other invocation holds, has persisted
\* nothing before, and the write replaces the status of that root alone by the
\* per-target list, the aggregate computed from that list and the placement
\* list, leaving the root's other fields and every other root as they were; no
\* step of an invocation changes a binding, a policy set, a grouping object, a
\* decision list or a replica, and no other step changes a status.
C20_WriteStep ==
    /\ \A w \in Workers :
          Persists(w) =>
              /\ Holds(w) /\ lock[w] \in locked
              /\ lock[w] = RootPolicyLocks[request[w]]
              /\ \A v \in Workers \ {w} : lock[v] = lock[w] => ~Holds(v)
              /\ "persisted" \notin ops[w]
              /\ policies' = [policies EXCEPT
                                ![request[w]].Status = ThreeFields(status[w], placements[w])]
    /\ (ReconcileStep /\ ~ \E w \in Workers : Persists(w)) => policies' = policies
    /\ ReconcileStep =>
          UNCHANGED << bindings, policySets, groupings, clusterDecisions, replicas >>
    /\ ~ReconcileStep => StatusOf(policies') = StatusOf(policies)

\* C20 (state part): an invocation that has persisted its Update is at its
\* return, so it writes no more.
C20_WroteOnce ==
    \A w \in Workers : "persisted" \in ops[w] => Returning(w)

\* C20: a Reconcile invocation writes at most once; the write is the status
\* of the root named in the request, replaced by the three status fields with
\* the aggregate computed from the per-target list written with it, made
\* while holding that root's lock; nothing else in the store is modified.
C20_SingleStatusWrite == [] C20_WroteOnce /\ [][C20_WriteStep]_vars

\* C20 witness: an invocation returns after persisting a non-empty status with
\* a non-empty aggregate for its root while another invocation for the same
\* root waits for the lock.
C20_Witness ==
    \E w, v \in Workers :
        /\ Returning(w) /\ "persisted" \in ops[w]
        /\ policies[request[w]].Status.Status # << >>
        /\ policies[request[w]].Status.ComplianceState # ""
        /\ pc[v] = "lock" /\ request[v] = request[w]

====
